---- MODULE Spec2Model ----
(***************************************************************************)
(* A model of evm-agent-kit's ProviderManager (per-chain connections and   *)
(* signers), MulticallService (batched reads through Multicall2),          *)
(* Erc20Service (validated token reads and writes) and Permit2Service's    *)
(* approveWithPermit2.                                                     *)
(*                                                                         *)
(* Strings are modelled as sequences of tokens: a URL is the sequence of   *)
(* its pieces, a private key is an optional "0x" prefix followed by its    *)
(* scalar, an address string is a record of its 20 bytes (by name) and the *)
(* letter casing it is written in.  Byte strings are sequences of bytes    *)
(* (0..255) and unsigned 256-bit integers are kept as byte/digit sequences *)
(* because they do not fit TLC's 32-bit integers.                          *)
(***************************************************************************)
EXTENDS Integers, Sequences, FiniteSets, TLC

VARIABLES
    providers,       \* ProviderManager.providers : chain id -> endpoint (or NoProvider)
    signers,         \* ProviderManager.signers   : chain id -> wallet   (or NoSigner)
    defaultChainId,  \* ProviderManager.defaultChainId
    pmOut,           \* the last ProviderManager call: its arguments and its outcome
    regConn,         \* history: chains for which a connection was stored
    regKey,          \* history: chains for which a wallet was stored
    mcPc,            \* the multicall operation in flight: "idle", "resolving", "awaiting", "done"
    mcOp,            \* its arguments and what it resolved before the await
    mcRpc,           \* the RPC calls it issued, in order
    mcResp,          \* what the endpoint answered
    mcOut,           \* its outcome: a value or the error it rejected with
    multicallAddresses, \* the module's MULTICALL2_ADDRESSES object as the process holds it
    ercPc,           \* the Erc20Service operation in flight: "idle", "reading",
                     \* "decimals", "submitting", "done"; or approveWithPermit2:
                     \* "approving", "confirming", "permitting"
    ercOp,           \* its arguments and the runner it captured
    ercRpc,          \* the network calls it issued, in order
    ercResp,         \* the answers it received, in order
    ercOut           \* its outcome: a value or the error it rejected with

vars == <<providers, signers, defaultChainId, pmOut, regConn, regKey,
          mcPc, mcOp, mcRpc, mcResp, mcOut, multicallAddresses,
          ercPc, ercOp, ercRpc, ercResp, ercOut>>

pmVars == <<providers, signers, defaultChainId, pmOut, regConn, regKey>>
mcVars == <<mcPc, mcOp, mcRpc, mcResp, mcOut, multicallAddresses>>
ercVars == <<ercPc, ercOp, ercRpc, ercResp, ercOut>>

(***************************************************************************)
(* Bounds of the model.                                                    *)
(***************************************************************************)
\* The largest number of call descriptors in one batch.
MaxCalls == 2

\* The largest number of call descriptors in one batch when the operations of
\* the whole library interleave.
MaxLibCalls == 1

(***************************************************************************)
(* Values.                                                                 *)
(***************************************************************************)
\* An omitted optional chain id (chainId?: number left undefined).
Undefined == -1

\* The chain ids connections are registered for: two chains of the Multicall2
\* table (1 and 137) and one chain that is not in it.
ChainIds == {1, 5, 137}

\* What a caller may pass where a chain id is optional: 0 is falsy like undefined.
ChainArgs == ChainIds \cup {0, Undefined}

NoProvider == <<>>
NoSigner == [key |-> <<>>, provider |-> <<>>]
NoKey == <<>>

\* RPC URLs a caller may pass.  The last one has no scheme: new URL() rejects it.
UrlPolygon == <<"https://", "polygon-rpc.com">>
UrlCustom == <<"https://", "node.example">>
UrlNoScheme == <<"node.example">>
ValidUrls == {UrlPolygon, UrlCustom}
Urls == ValidUrls \cup {UrlNoScheme}

\* More RPC URLs a configuration may name: the start of two listed URLs, a
\* listed URL, a listed URL without its last character, a listed URL with a
\* path after it.
UrlMainnetPrefix == <<"https://", "mainnet">>
UrlBase == <<"https://", "mainnet", ".base.org">>
UrlBsc == <<"https://", "bsc-dataseed.binance.org">>
UrlPolygonPath == <<"https://", "polygon-rpc.com", "/v1">>
ConfigUrls == ValidUrls \cup {UrlMainnetPrefix, UrlBase, UrlBsc, UrlPolygonPath}

\* Private keys a caller may pass: a valid key written without its 0x prefix,
\* and a string that is not a key.
KeyBare == <<"k1">>
KeyBad == <<"0x", "zz">>
Keys == {KeyBare, KeyBad}
KeyArgs == Keys \cup {NoKey}

\* The scalars ethers.Wallet accepts (32 bytes of hex within the curve order).
WalletScalars == {"k1"}

\* s includes t: t occurs in s as a contiguous run (String.prototype.includes).
Includes(s, t) ==
    \E i \in 0..(Len(s) - Len(t)) : SubSeq(s, i + 1, i + Len(t)) = t

(***************************************************************************)
(* interfaces/config.ts: SUPPORTED_CHAINS, in declaration order.           *)
(***************************************************************************)
SUPPORTED_CHAINS ==
    << [id |-> 1,
        rpcUrls |-> << <<"https://", "mainnet", ".infura.io/v3/YOUR_INFURA_PROJECT_ID">>,
                       <<"https://", "eth-mainnet.public.blastapi.io">> >>],
       [id |-> 137,  rpcUrls |-> << <<"https://", "polygon-rpc.com">> >>],
       [id |-> 56,   rpcUrls |-> << <<"https://", "bsc-dataseed.binance.org", "/">> >>],
       [id |-> 8453, rpcUrls |-> << <<"https://", "mainnet", ".base.org">> >>] >>

(***************************************************************************)
(* utils/validation.ts                                                     *)
(***************************************************************************)
\* new URL(url) succeeds: the text starts with a scheme and names a host.
isValidRpcUrl(url) ==
    /\ Len(url) >= 2
    /\ url[1] \in {"https://", "http://"}

\* The key with "0x" put in front of it when it is missing.
NormalizeKey(privateKey) ==
    IF Len(privateKey) > 0 /\ privateKey[1] = "0x"
    THEN privateKey
    ELSE <<"0x">> \o privateKey

\* new ethers.Wallet(normalized key) does not throw.
isValidPrivateKey(privateKey) ==
    LET k == NormalizeKey(privateKey)
    IN  Len(k) = 2 /\ k[2] \in WalletScalars

(***************************************************************************)
(* providers/ProviderManager.ts                                            *)
(***************************************************************************)
\* A guess that returns the last chain of the table that matches.
guessChainIdLastMatch(rpcUrl) ==
    LET matches(chain) ==
            \E j \in 1..Len(chain.rpcUrls) :
                Includes(rpcUrl, chain.rpcUrls[j]) \/ Includes(chain.rpcUrls[j], rpcUrl)
        hits == {i \in 1..Len(SUPPORTED_CHAINS) : matches(SUPPORTED_CHAINS[i])}
    IN  IF hits = {} THEN 1
        ELSE SUPPORTED_CHAINS[CHOOSE i \in hits : \A k \in hits : i >= k].id

\* The first chain of the table one of whose URLs includes, or is included in,
\* rpcUrl; Ethereum Mainnet when there is none.
guessChainId(rpcUrl) ==
    LET matches(chain) ==
            \E j \in 1..Len(chain.rpcUrls) :
                Includes(rpcUrl, chain.rpcUrls[j]) \/ Includes(chain.rpcUrls[j], rpcUrl)
        hits == {i \in 1..Len(SUPPORTED_CHAINS) : matches(SUPPORTED_CHAINS[i])}
    IN  IF hits = {} THEN 1
        ELSE SUPPORTED_CHAINS[CHOOSE i \in hits : \A k \in hits : i <= k].id

\* chainId || this.defaultChainId
ResolveChain(chainId, default) ==
    IF chainId = Undefined \/ chainId = 0 THEN default ELSE chainId

\* new ethers.Wallet(privateKey, provider)
Wallet(privateKey, provider) ==
    [key |-> NormalizeKey(privateKey), provider |-> provider]

NoError == ""

\* The outcome of getProvider(chainId) in a manager holding provs.
getProvider(provs, default, chainId) ==
    LET id == ResolveChain(chainId, default)
    IN  IF id \notin DOMAIN provs \/ provs[id] = NoProvider
        THEN [status |-> "error", error |-> "Provider not found for chain ID",
              chain |-> id, value |-> NoProvider]
        ELSE [status |-> "ok", error |-> NoError, chain |-> id, value |-> provs[id]]

\* A getSigner that falls back to the default chain's signer when the chain
\* has none.
getSignerWithFallback(sigs, default, chainId) ==
    LET id == ResolveChain(chainId, default)
        found == IF id \in DOMAIN sigs /\ sigs[id] # NoSigner THEN sigs[id]
                 ELSE sigs[default]
    IN  IF found = NoSigner
        THEN [status |-> "error", error |-> "Signer not found for chain ID",
              chain |-> id, value |-> NoSigner]
        ELSE [status |-> "ok", error |-> NoError, chain |-> id, value |-> found]

\* The outcome of getSigner(chainId) in a manager holding sigs.
getSigner(sigs, default, chainId) ==
    LET id == ResolveChain(chainId, default)
    IN  IF id \notin DOMAIN sigs \/ sigs[id] = NoSigner
        THEN [status |-> "error", error |-> "Signer not found for chain ID",
              chain |-> id, value |-> NoSigner]
        ELSE [status |-> "ok", error |-> NoError, chain |-> id, value |-> sigs[id]]

\* The constructor: the maps and the default chain it leaves, or the error it
\* throws (and then no manager exists).
Construct(defaultRpcUrl, privateKey, chainId) ==
    LET default == IF chainId = Undefined \/ chainId = 0
                   THEN guessChainId(defaultRpcUrl) ELSE chainId
        empty == [c \in ChainIds \cup {default} |-> NoProvider]
        nosig == [c \in ChainIds \cup {default} |-> NoSigner]
        provs == [empty EXCEPT ![default] = defaultRpcUrl]
    IN  IF ~isValidRpcUrl(defaultRpcUrl)
        THEN [status |-> "error", error |-> "Invalid RPC URL",
              providers |-> empty, signers |-> nosig, defaultChainId |-> default]
        ELSE IF privateKey # NoKey /\ ~isValidPrivateKey(privateKey)
        THEN [status |-> "error", error |-> "Invalid private key",
              providers |-> provs, signers |-> nosig, defaultChainId |-> default]
        ELSE [status |-> "ok", error |-> NoError,
              providers |-> provs,
              signers |-> IF privateKey # NoKey
                          THEN [nosig EXCEPT ![default] = Wallet(privateKey, defaultRpcUrl)]
                          ELSE nosig,
              defaultChainId |-> default]

\* An addProvider that rebuilds the connection map around the new entry and so
\* drops the connections of the other chains.
addProviderResettingMap(provs, sigs, rpcUrl, chainId, privateKey) ==
    IF ~isValidRpcUrl(rpcUrl)
    THEN [status |-> "error", error |-> "Invalid RPC URL",
          providers |-> provs, signers |-> sigs]
    ELSE LET stored == [c \in DOMAIN provs |-> IF c = chainId THEN rpcUrl ELSE NoProvider]
         IN  IF privateKey = NoKey
             THEN [status |-> "ok", error |-> NoError,
                   providers |-> stored, signers |-> sigs]
             ELSE IF ~isValidPrivateKey(privateKey)
             THEN [status |-> "error", error |-> "Invalid private key",
                   providers |-> stored, signers |-> sigs]
             ELSE [status |-> "ok", error |-> NoError,
                   providers |-> stored,
                   signers |-> [sigs EXCEPT ![chainId] = Wallet(privateKey, rpcUrl)]]

\* An addProvider that, when the key is not valid, takes the connection of the
\* chain out of the map before it throws.
addProviderClearingOnBadKey(provs, sigs, rpcUrl, chainId, privateKey) ==
    IF ~isValidRpcUrl(rpcUrl)
    THEN [status |-> "error", error |-> "Invalid RPC URL",
          providers |-> provs, signers |-> sigs]
    ELSE LET stored == [provs EXCEPT ![chainId] = rpcUrl]
         IN  IF privateKey = NoKey
             THEN [status |-> "ok", error |-> NoError,
                   providers |-> stored, signers |-> sigs]
             ELSE IF ~isValidPrivateKey(privateKey)
             THEN [status |-> "error", error |-> "Invalid private key",
                   providers |-> [provs EXCEPT ![chainId] = NoProvider],
                   signers |-> sigs]
             ELSE [status |-> "ok", error |-> NoError,
                   providers |-> stored,
                   signers |-> [sigs EXCEPT ![chainId] = Wallet(privateKey, rpcUrl)]]

\* addProvider(rpcUrl, chainId, privateKey): the maps it leaves and whether it
\* threw.  The connection is stored before the key is looked at.
addProvider(provs, sigs, rpcUrl, chainId, privateKey) ==
    IF ~isValidRpcUrl(rpcUrl)
    THEN [status |-> "error", error |-> "Invalid RPC URL",
          providers |-> provs, signers |-> sigs]
    ELSE LET stored == [provs EXCEPT ![chainId] = rpcUrl]
         IN  IF privateKey = NoKey
             THEN [status |-> "ok", error |-> NoError,
                   providers |-> stored, signers |-> sigs]
             ELSE IF ~isValidPrivateKey(privateKey)
             THEN [status |-> "error", error |-> "Invalid private key",
                   providers |-> stored, signers |-> sigs]
             ELSE [status |-> "ok", error |-> NoError,
                   providers |-> stored,
                   signers |-> [sigs EXCEPT ![chainId] = Wallet(privateKey, rpcUrl)]]

(***************************************************************************)
(* Byte strings, unsigned 256-bit integers and their decimal strings.      *)
(***************************************************************************)
\* The width in bytes of the ABI word a uint256 is decoded from.
WordBytes == 32

Zeros(n) == [i \in 1..n |-> 0]

\* The word holding the big-endian bytes `tail` in its low-order end.
Word(tail) == Zeros(WordBytes - Len(tail)) \o tail

IsZero(bytes) == \A i \in 1..Len(bytes) : bytes[i] = 0

\* Long division of the big-endian base-256 numeral `bytes` (of even length) by
\* 10000, two bytes at a step from byte i on, with `carry` brought down.
RECURSIVE DivMod10000(_, _, _, _)
DivMod10000(bytes, i, carry, quotient) ==
    IF i > Len(bytes)
    THEN [q |-> quotient, r |-> carry]
    ELSE LET cur == carry * 65536 + bytes[i] * 256 + bytes[i + 1]
             q == cur \div 10000
         IN  DivMod10000(bytes, i + 2, cur % 10000,
                         quotient \o <<q \div 256, q % 256>>)

\* The four decimal digits of g < 10000.
FourDigits(g) == <<g \div 1000, (g \div 100) % 10, (g \div 10) % 10, g % 10>>

\* The decimal digits of g < 10000 without leading zeros (none for 0).
RECURSIVE PlainDigits(_)
PlainDigits(g) == IF g = 0 THEN <<>> ELSE Append(PlainDigits(g \div 10), g % 10)

\* The decimal digits of a non-zero numeral, most significant first, produced
\* four at a time from the least significant end.
RECURSIVE Digits(_)
Digits(bytes) ==
    LET dm == DivMod10000(bytes, 1, 0, <<>>)
    IN  IF IsZero(dm.q) THEN PlainDigits(dm.r)
        ELSE Digits(dm.q) \o FourDigits(dm.r)

\* BigInt.prototype.toString(): base 10, no sign, no leading zeros.
BigIntToString(value) == IF IsZero(value) THEN <<0>> ELSE Digits(value)

\* A decode that keeps only the low-order 8 bytes of the word (the value read
\* as a 64-bit number).
DecodeUint256AsUint64(data) ==
    Zeros(WordBytes - 8) \o SubSeq(data, WordBytes - 7, WordBytes)

\* AbiCoder.decode(["uint256"], data): the first word of data, read big-endian;
\* data shorter than one word cannot be decoded (bytes after it are ignored).
CanDecodeUint256(data) == Len(data) >= WordBytes
DecodeUint256(data) == SubSeq(data, 1, WordBytes)

(***************************************************************************)
(* Address strings.                                                        *)
(***************************************************************************)
\* An address string: which 20 bytes it spells and the casing of its hex
\* letters.  "lower" and "checksum" are accepted by ethers; "mixed" is a mixed
\* casing whose EIP-55 checksum is wrong; "name" is a string that is not 0x
\* and 40 hex digits at all (its `bytes` is then the text itself).
Casings == {"lower", "checksum", "mixed", "name"}
AddressString(bytes, casing) == [bytes |-> bytes, casing |-> casing]

DaiLower == AddressString("dai", "lower")
DaiChecksum == AddressString("dai", "checksum")
UsdcLower == AddressString("usdc", "lower")
DaiMixed == AddressString("dai", "mixed")
OwnerLower == AddressString("owner", "lower")
OwnerMixed == AddressString("owner", "mixed")
EnsName == AddressString("vitalik.eth", "name")
EnsResolved == AddressString("vitalik", "checksum")

\* The token address strings and owner address strings a caller may pass.
TokenStrings == {DaiLower, DaiChecksum, UsdcLower, DaiMixed}
OwnerStrings == {OwnerLower, OwnerMixed}
BatchTargets == {DaiLower, UsdcLower, DaiMixed, EnsName}

\* The string has the shape 0x and 40 hex digits: a contract call takes it as
\* an address; any other string is taken as an ENS name and looked up.
IsHexShaped(s) == s.casing # "name"

\* ethers.getAddress(s) returns: s is 40 hex digits, all of one case or with
\* the right checksum casing.
IsEncodableAddress(s) == s.casing \in {"lower", "checksum"}

\* String.prototype.toLowerCase() of an address string.
ToLowerCase(s) == AddressString(s.bytes, "lower")

(***************************************************************************)
(* utils/MulticallService.ts                                               *)
(***************************************************************************)
MULTICALL2_ADDRESSES ==
    [c \in {1, 137, 56, 8453, 10, 42161} |->
        CASE c = 1     -> "0x5BA1e12693Dc8F9c48aAD8770482f4739bEeD696"
          [] c = 137   -> "0x275617327c958bD06b5D6b871E7f491D76113dd8"
          [] c = 56    -> "0xa9193376D09C7f31283C54e56D013fCF370Cd9D9"
          [] c = 8453  -> "0xcA11bde05977b3631167028862bE2a173976CA11"
          [] c = 10    -> "0xcA11bde05977b3631167028862bE2a173976CA11"
          [] c = 42161 -> "0xcA11bde05977b3631167028862bE2a173976CA11"]

NoAddress == ""

\* getMulticallAddress(chainId): the address the table holds for the chain,
\* or the error it throws.
getMulticallAddress(addresses, chainId) ==
    IF chainId \notin DOMAIN addresses
    THEN [status |-> "error", error |-> "Multicall2 address not found for chain ID",
          value |-> NoAddress]
    ELSE [status |-> "ok", error |-> NoError, value |-> addresses[chainId]]

\* The chain id a multicall operation runs on: the parameter's default is 1.
DefaultParamChain(chainId) == IF chainId = Undefined THEN 1 ELSE chainId

\* erc20Interface.encodeFunctionData("balanceOf", [ownerAddress])
EncodeBalanceOf(ownerAddress) == <<"balanceOf", ToLowerCase(ownerAddress)>>

\* tokenAddresses.map(tokenAddress => ({target, callData}))
BalanceCalls(ownerAddress, tokenAddresses) ==
    [i \in 1..Len(tokenAddresses) |->
        [target |-> tokenAddresses[i], callData |-> EncodeBalanceOf(ownerAddress)]]

(***************************************************************************)
(* The Multicall2 contract and the endpoint, as the service sees them.     *)
(***************************************************************************)
\* Return data of one sub-call: balances 1000, 100 and 2^256-1 as ABI words,
\* and the empty byte string an address without code answers with.
Word1000 == Word(<<3, 232>>)
Word100 == Word(<<100>>)
WordMax == [i \in 1..WordBytes |-> 255]
EmptyBytes == <<>>

SubCall(success, returnData) == [success |-> success, returnData |-> returnData]

\* What one sub-call may do inside the batching contract.
SubOutcomes ==
    { SubCall(TRUE, Word1000), SubCall(TRUE, Word100), SubCall(TRUE, WordMax),
      SubCall(TRUE, EmptyBytes), SubCall(FALSE, EmptyBytes) }

\* Entries of a response that does not come from Multicall2 (a wrong contract
\* at the address, a test double).
StrayEntries == {SubCall(TRUE, Word1000), SubCall(TRUE, Word100)}

NoResponse == [kind |-> "none", conforming |-> FALSE, subs |-> <<>>,
               data |-> <<>>, message |-> ""]

\* Multicall2.aggregate: every sub-call must succeed, else the call reverts;
\* returnData[i] is what calls[i] returned.
Multicall2Aggregate(subs) ==
    IF \E i \in 1..Len(subs) : ~subs[i].success
    THEN [kind |-> "revert", conforming |-> TRUE, subs |-> subs, data |-> <<>>,
          message |-> "execution reverted: Multicall aggregate: call failed"]
    ELSE [kind |-> "data", conforming |-> TRUE, subs |-> subs,
          data |-> [i \in 1..Len(subs) |-> subs[i].returnData], message |-> ""]

\* Multicall2.tryAggregate: with requireSuccess a failing sub-call reverts the
\* call; without it result[i] is calls[i]'s (success, returnData).
Multicall2TryAggregate(requireSuccess, subs) ==
    IF requireSuccess /\ \E i \in 1..Len(subs) : ~subs[i].success
    THEN [kind |-> "revert", conforming |-> TRUE, subs |-> subs, data |-> <<>>,
          message |-> "execution reverted: Multicall2 aggregate: call failed"]
    ELSE [kind |-> "data", conforming |-> TRUE, subs |-> subs,
          data |-> [i \in 1..Len(subs) |-> <<subs[i].success, subs[i].returnData>>],
          message |-> ""]

\* The round-trip itself fails.
TransportFailure ==
    [kind |-> "transport", conforming |-> FALSE, subs |-> <<>>, data |-> <<>>,
     message |-> "network error"]

\* A response with `entries` that Multicall2 did not compute from the batch.
StrayResponse(method, entries) ==
    [kind |-> "data", conforming |-> FALSE, subs |-> <<>>,
     data |-> [i \in 1..Len(entries) |->
                  IF method = "aggregate" THEN entries[i].returnData
                  ELSE <<entries[i].success, entries[i].returnData>>],
     message |-> ""]

(***************************************************************************)
(* MulticallService: the two operations.                                   *)
(***************************************************************************)
NoOp == [kind |-> "none", ownerAddress |-> OwnerLower, tokenAddresses |-> <<>>,
         calls |-> <<>>,
         chainArg |-> Undefined, chainId |-> Undefined, requireSuccess |-> FALSE,
         provider |-> NoProvider, address |-> NoAddress]

NoOutcome == [status |-> "none", text |-> "", cause |-> "", value |-> <<>>]

Thrown(text, cause) == [status |-> "error", text |-> text, cause |-> cause, value |-> <<>>]
Returned(value) == [status |-> "ok", text |-> "", cause |-> "", value |-> value]

\* What a thrown error tells its kind by: the catch blocks throw a plain Error
\* (no subclass, no code) whose message is the prefix and the cause's message.
ErrorKind(outcome) == [class |-> "Error", prefix |-> outcome.text]

\* The message prefix of the operation's catch block.
CatchPrefix(kind) ==
    IF kind = "getErc20BatchBalances" THEN "Failed to get batch balances: "
    ELSE "Failed to batch calls: "

\* The Multicall2 method the operation calls.
MethodOf(kind) == IF kind = "getErc20BatchBalances" THEN "aggregate" ELSE "tryAggregate"

\* The names among the first n targets, in order.
NamesAmong(calls, n) ==
    SelectSeq([i \in 1..n |-> calls[i].target], LAMBDA t : ~IsHexShaped(t))

\* The targets as the request carries them: a name is replaced by the address
\* its lookup returned.
ResolvedCalls(calls) ==
    [i \in 1..Len(calls) |->
        [calls[i] EXCEPT !.target = IF IsHexShaped(@) THEN @ ELSE EnsResolved]]

\* The code before the await: resolve the provider and the Multicall2 address,
\* build the calls, encode the request.  "send" when the request goes out,
\* "resolve" when the targets hold names whose lookups are awaited first,
\* else the error thrown (outside the try block) or caught and wrapped.
\* The contract call walks the targets in order: a name starts a lookup, a
\* hex string with a wrong checksum stops the walk with an error.
Prepare(addresses, provs, default, kind, ownerAddress, calls, chainArg) ==
    LET chainId == DefaultParamChain(chainArg)
        p == getProvider(provs, default, chainId)
        a == getMulticallAddress(addresses, chainId)
        Bad(i) == IsHexShaped(calls[i].target) /\ ~IsEncodableAddress(calls[i].target)
        firstBad == IF \E i \in 1..Len(calls) : Bad(i)
                    THEN CHOOSE i \in 1..Len(calls) :
                            Bad(i) /\ \A j \in 1..(i - 1) : ~Bad(j)
                    ELSE Len(calls) + 1
        names == NamesAmong(calls, firstBad - 1)
        base == [status |-> "send", text |-> "", cause |-> "", chainId |-> chainId,
                 provider |-> p.value, address |-> a.value, lookups |-> <<>>]
    IN  IF p.status = "error"
        THEN [base EXCEPT !.status = "error", !.text = p.error]
        ELSE IF a.status = "error"
        THEN [base EXCEPT !.status = "error", !.text = a.error]
        ELSE IF /\ kind = "getErc20BatchBalances"
                /\ Len(calls) > 0
                /\ ~IsEncodableAddress(ownerAddress)
        THEN [base EXCEPT !.status = "error", !.text = "bad address checksum"]
        ELSE IF firstBad <= Len(calls)
        THEN [base EXCEPT !.status = "error", !.text = CatchPrefix(kind),
                          !.cause = "bad address checksum", !.lookups = names]
        ELSE IF names # <<>>
        THEN [base EXCEPT !.status = "resolve", !.lookups = names]
        ELSE base

\* A map whose set keeps the value a key already has.
MapSetKeepingFirst(map, key, value) == map @@ (key :> value)

\* Map.prototype.set(key, value)
MapSet(map, key, value) == (key :> value) @@ map

\* The loop over tokenAddresses after the await, from index i on.
RECURSIVE BalancesLoop(_, _, _, _)
BalancesLoop(tokenAddresses, returnData, i, balances) ==
    IF i > Len(tokenAddresses)
    THEN Returned(balances)
    ELSE IF i > Len(returnData)
    THEN Thrown(CatchPrefix("getErc20BatchBalances"), "out of result range")
    ELSE IF ~CanDecodeUint256(returnData[i])
    THEN Thrown(CatchPrefix("getErc20BatchBalances"), "data out-of-bounds")
    ELSE BalancesLoop(tokenAddresses, returnData, i + 1,
                      MapSet(balances, tokenAddresses[i],
                             BigIntToString(DecodeUint256(returnData[i]))))

\* A mapping of the results that keeps only the calls that succeeded.
MapResultsSuccessOnly(results) ==
    LET kept == SelectSeq(results, LAMBDA r : r[1])
    IN  [i \in 1..Len(kept) |-> [success |-> kept[i][1], returnData |-> kept[i][2]]]

\* results.map(result => ({success: result[0], returnData: result[1]}))
MapResults(results) ==
    [i \in 1..Len(results) |->
        [success |-> results[i][1], returnData |-> results[i][2]]]

\* A completion whose catch block swallows the failure of the balance batch
\* and answers with an empty mapping.
CompleteSwallowingFailure(op, resp) ==
    IF resp.kind # "data"
    THEN IF op.kind = "getErc20BatchBalances"
         THEN Returned(<<>>)
         ELSE Thrown(CatchPrefix(op.kind), resp.message)
    ELSE IF op.kind = "getErc20BatchBalances"
    THEN BalancesLoop(op.tokenAddresses, resp.data, 1, <<>>)
    ELSE Returned(MapResults(resp.data))

\* The code after the await, given what the endpoint answered.
Complete(op, resp) ==
    IF resp.kind # "data"
    THEN Thrown(CatchPrefix(op.kind), resp.message)
    ELSE IF op.kind = "getErc20BatchBalances"
    THEN BalancesLoop(op.tokenAddresses, resp.data, 1, <<>>)
    ELSE Returned(MapResults(resp.data))

(***************************************************************************)
(* utils/formatting.ts and utils/validation.ts: amounts and addresses.     *)
(***************************************************************************)
\* Amount strings, one character per element.
DigitChars == <<"0", "1", "2", "3", "4", "5", "6", "7", "8", "9">>
IsDigit(c) == \E i \in 1..Len(DigitChars) : DigitChars[i] = c
AllDigits(s) == \A i \in 1..Len(s) : IsDigit(s[i])
AllZeros(s) == \A i \in 1..Len(s) : s[i] = "0"

\* Amounts a caller may pass: "1.5", "25", "0.125", "-1", "abc", "" and "1e3".
AmtOnePointFive == <<"1", ".", "5">>
AmtWhole == <<"2", "5">>
AmtFine == <<"0", ".", "1", "2", "5">>
AmtNegative == <<"-", "1">>
AmtWord == <<"a", "b", "c">>
AmtEmpty == <<>>
AmtExponent == <<"1", "e", "3">>
Amounts == {AmtOnePointFive, AmtWhole, AmtFine, AmtNegative, AmtWord, AmtEmpty,
            AmtExponent}

\* The positions of the characters of s that are in the set cs.
PositionsOf(s, cs) == {i \in 1..Len(s) : s[i] \in cs}

\* digits, or digits with one point among them, with a digit somewhere
IsDecimalLiteral(s) ==
    LET dots == PositionsOf(s, {"."})
    IN  /\ Cardinality(dots) <= 1
        /\ \A i \in (1..Len(s)) \ dots : IsDigit(s[i])
        /\ Len(s) > Cardinality(dots)

\* Number(amount) of a string without white space, as far as isValidAmount
\* looks at it: whether it is NaN and whether it is below zero.  The empty
\* string converts to 0; a decimal literal may carry a sign and an exponent.
JsNumber(amount) ==
    LET signed == Len(amount) > 0 /\ amount[1] \in {"-", "+"}
        body == IF signed THEN Tail(amount) ELSE amount
        es == PositionsOf(body, {"e", "E"})
        e == IF es = {} THEN Len(body) + 1 ELSE CHOOSE i \in es : \A k \in es : i <= k
        mantissa == SubSeq(body, 1, e - 1)
        exponent == SubSeq(body, e + 1, Len(body))
        expSigned == Len(exponent) > 0 /\ exponent[1] \in {"-", "+"}
        expDigits == IF expSigned THEN Tail(exponent) ELSE exponent
        literal == /\ IsDecimalLiteral(mantissa)
                   /\ es # {} => (Len(expDigits) > 0 /\ AllDigits(expDigits))
    IN  IF amount = <<>>
        THEN [nan |-> FALSE, negative |-> FALSE]
        ELSE IF ~literal
        THEN [nan |-> TRUE, negative |-> FALSE]
        ELSE [nan |-> FALSE,
              negative |-> /\ amount[1] = "-"
                           /\ \E i \in 1..Len(mantissa) :
                                 IsDigit(mantissa[i]) /\ mantissa[i] # "0"]

\* ValidationUtils.isValidAmount(amount)
isValidAmount(amount) ==
    LET n == JsNumber(amount)
    IN  ~n.nan /\ ~n.negative

\* isValidAddress(address): ethers.isAddress(address)
isValidAddress(address) == IsHexShaped(address) /\ IsEncodableAddress(address)

\* ValidationUtils.validateTransferParams(tokenAddress, recipientAddress, amount)
validateTransferParams(tokenAddress, recipientAddress, amount) ==
    IF ~isValidAddress(tokenAddress)
    THEN [valid |-> FALSE, error |-> "Invalid token address"]
    ELSE IF ~isValidAddress(recipientAddress)
    THEN [valid |-> FALSE, error |-> "Invalid recipient address"]
    ELSE IF ~isValidAmount(amount)
    THEN [valid |-> FALSE, error |-> "Invalid amount"]
    ELSE [valid |-> TRUE, error |-> ""]

\* s without its leading zeros, "0" when nothing is left.
RECURSIVE StripZeros(_)
StripZeros(s) ==
    IF s = <<>> THEN <<"0">>
    ELSE IF s[1] = "0" THEN StripZeros(Tail(s))
    ELSE s

\* The largest number of decimals a fixed-point format takes.
MaxFixedDecimals == 80

\* ethers.parseUnits(value, decimals).toString(): the value is an optional
\* minus, digits, an optional point and digits, with a digit somewhere; the
\* digits after the point beyond `decimals` must be zeros; the result is the
\* digits of the whole part followed by `decimals` digits of the fraction.
parseUnits(value, decimals) ==
    LET negative == Len(value) > 0 /\ value[1] = "-"
        body == IF negative THEN Tail(value) ELSE value
        dots == PositionsOf(body, {"."})
        dot == IF dots = {} THEN Len(body) + 1 ELSE CHOOSE i \in dots : TRUE
        whole == SubSeq(body, 1, dot - 1)
        fraction == SubSeq(body, dot + 1, Len(body))
        padded == fraction \o [i \in 1..(decimals - Len(fraction)) |-> "0"]
        digits == StripZeros(whole \o SubSeq(padded, 1, decimals))
    IN  IF ~IsDecimalLiteral(body)
        THEN [status |-> "error", error |-> "invalid FixedNumber string value",
              value |-> <<>>]
        ELSE IF decimals > MaxFixedDecimals
        THEN [status |-> "error", error |-> "invalid fixed format", value |-> <<>>]
        ELSE IF ~AllZeros(SubSeq(padded, decimals + 1, Len(padded)))
        THEN [status |-> "error", error |-> "too many decimals for format",
              value |-> <<>>]
        ELSE [status |-> "ok", error |-> "",
              value |-> IF negative /\ digits # <<"0">> THEN <<"-">> \o digits
                        ELSE digits]

\* A conversion that always scales by the six decimals of an earlier token.
parseTokenAmountSixDecimals(amount, decimals) == parseUnits(amount, 6)

\* parseTokenAmount(amount, decimals)
parseTokenAmount(amount, decimals) == parseUnits(amount, decimals)

(***************************************************************************)
(* core/Erc20Service.ts                                                    *)
(***************************************************************************)
\* An omitted gasPrice or gasLimit.
NoGas == <<>>

\* The gasPrice strings (in gwei) and gasLimit strings a caller may pass.
GasPrices == {NoGas, <<"5">>, <<"x">>}
GasLimits == {NoGas, <<"6", "0", "0", "0", "0">>}

\* The addresses a caller may pass for the token and for the other party.
ErcTokens == {DaiLower, DaiMixed, EnsName}
ErcParties == {OwnerLower, OwnerMixed}

\* "0x0000000000000000000000000000000000000000"
ZeroAddress == AddressString("zero", "lower")

\* What decimals() of a token may answer (uint8).
DecimalsValues == {0, 2, 6}

NoErcOp == [kind |-> "none", tokenAddress |-> ZeroAddress, partyAddress |-> ZeroAddress,
            spenderAddress |-> ZeroAddress, amount |-> <<>>, gasPrice |-> NoGas,
            gasLimit |-> NoGas, chainArg |-> Undefined, runner |-> <<>>]

IsWrite(kind) == kind \in {"transfer", "approve"}

\* The message prefix of the operation's catch block.
ErcCatchPrefix(kind) ==
    CASE kind = "getBalance" -> "Failed to get balance: "
      [] kind = "getAllowance" -> "Failed to get allowance: "
      [] kind = "getTokenMetadata" -> "Failed to get token metadata: "
      [] kind = "transfer" -> "Failed to transfer tokens: "
      [] kind = "approve" -> "Failed to approve tokens: "

\* The validation at the head of each operation: the error it throws, or
\* NoOutcome when the parameters pass.
ErcValidate(op) ==
    LET zero == <<"0">>
        first == validateTransferParams(op.tokenAddress, op.partyAddress,
                     IF IsWrite(op.kind) THEN op.amount ELSE zero)
        second == validateTransferParams(op.tokenAddress, op.spenderAddress, zero)
        token == validateTransferParams(op.tokenAddress, ZeroAddress, zero)
    IN  CASE op.kind = "getBalance" ->
               IF first.valid THEN NoOutcome
               ELSE Thrown("Invalid parameters for getBalance", "")
          [] op.kind = "getAllowance" ->
               IF first.valid /\ second.valid THEN NoOutcome
               ELSE Thrown("Invalid parameters for getAllowance", "")
          [] op.kind = "getTokenMetadata" ->
               IF token.valid THEN NoOutcome
               ELSE Thrown("Invalid token address", "")
          [] op.kind = "transfer" ->
               IF first.valid THEN NoOutcome
               ELSE Thrown("Invalid parameters for transfer: ", first.error)
          [] op.kind = "approve" ->
               IF first.valid THEN NoOutcome
               ELSE Thrown("Invalid parameters for approve: ", first.error)

\* One network call through the runner: an eth_call ("call") or a
\* transaction ("send").
ErcRequest(type, op, method, args, options) ==
    [type |-> type, runner |-> op.runner, to |-> op.tokenAddress,
     method |-> method, args |-> args, options |-> options]

\* The calls an operation issues first: its read or reads, or the decimals()
\* read of a write.
ErcFirstCalls(op) ==
    CASE op.kind = "getBalance" ->
           << ErcRequest("call", op, "balanceOf", <<op.partyAddress>>, <<>>) >>
      [] op.kind = "getAllowance" ->
           << ErcRequest("call", op, "allowance",
                         <<op.partyAddress, op.spenderAddress>>, <<>>) >>
      [] op.kind = "getTokenMetadata" ->
           << ErcRequest("call", op, "name", <<>>, <<>>),
              ErcRequest("call", op, "symbol", <<>>, <<>>),
              ErcRequest("call", op, "decimals", <<>>, <<>>) >>
      [] OTHER ->
           << ErcRequest("call", op, "decimals", <<>>, <<>>) >>

\* The code of transfer and approve between the decimals() read and the
\* submission: the amount and the gas price are converted; the transaction
\* to send, or the error thrown into the catch block.
ErcBuildTransaction(op, decimals) ==
    LET amountInWei == parseTokenAmount(op.amount, decimals)
        gasPrice == IF op.gasPrice = NoGas
                    THEN [status |-> "ok", error |-> "", value |-> NoGas]
                    ELSE parseUnits(op.gasPrice, 9)
    IN  IF amountInWei.status = "error"
        THEN [status |-> "error", error |-> amountInWei.error, request |-> <<>>]
        ELSE IF gasPrice.status = "error"
        THEN [status |-> "error", error |-> gasPrice.error, request |-> <<>>]
        ELSE [status |-> "ok", error |-> "",
              request |-> ErcRequest("send", op, op.kind,
                                     <<op.partyAddress, amountInWei.value>>,
                                     [gasPrice |-> gasPrice.value,
                                      gasLimit |-> op.gasLimit])]

\* What the network answers to a read, to decimals(), to a transaction.
ReadAnswers == {[ok |-> TRUE, value |-> <<"1", "0", "0", "0">>, message |-> ""],
                [ok |-> FALSE, value |-> <<>>, message |-> "call revert exception"]}
DecimalsAnswers ==
    {[ok |-> TRUE, value |-> d, message |-> ""] : d \in DecimalsValues}
    \cup {[ok |-> FALSE, value |-> 0, message |-> "call revert exception"]}
TxAnswers == {[ok |-> TRUE, value |-> "0xhash", message |-> ""],
              [ok |-> FALSE, value |-> "", message |-> "insufficient funds"]}

(***************************************************************************)
(* core/Permit2Service.ts                                                  *)
(***************************************************************************)
\* "0x000000000022D473030F116dDEE9F6B43aC78BA3"
PERMIT2_ADDRESS == AddressString("permit2", "checksum")

\* ethers.MaxUint256, and 0xffffffffffff, the largest uint48.
MaxUint256 == "0xffffffffffffffffffffffffffffffffffffffffffffffffffffffffffffffff"
MaxUint48 == "0xffffffffffff"

\* The expiration a caller may pass: omitted, a timestamp, a negative number.
NoExpiration == "undefined"
ExpirationArgs == {NoExpiration, "1700000000", "-1"}

\* The spender strings a caller may pass.
P2Spenders == {OwnerLower, OwnerMixed}

P2CatchPrefix == "Failed to approve with Permit2: "

\* One awaited call of approveWithPermit2: a transaction sent through a
\* contract ("send") or the wait for a sent transaction's receipt ("wait").
P2Request(type, abi, runner, to, method, args) ==
    [type |-> type, abi |-> abi, runner |-> runner, to |-> to,
     method |-> method, args |-> args]

\* erc20.approve(PERMIT2_ADDRESS, ethers.MaxUint256) on the token.
P2ApproveRequest(op) ==
    P2Request("send", "erc20", op.runner, op.tokenAddress, "approve",
              <<PERMIT2_ADDRESS, MaxUint256>>)

\* approveTx.wait()
P2WaitRequest(op, hash) ==
    P2Request("wait", "receipt", op.runner, op.tokenAddress, "wait", <<hash>>)

\* What encoding a string as uint160 throws, or NoError: getBigInt takes
\* decimal digits with an optional sign, and the coder takes no negative.
Uint160Error(amount) ==
    IF amount # <<>> /\ AllDigits(amount) THEN NoError
    ELSE IF Len(amount) > 1 /\ amount[1] = "-" /\ AllDigits(Tail(amount))
    THEN "value out-of-bounds"
    ELSE "invalid BigNumberish string"

\* What encoding the expiration as uint48 throws, or NoError.
Uint48Error(expiration) ==
    IF expiration = "-1" THEN "value out-of-bounds" ELSE NoError

\* permit2.approve(tokenAddress, spenderAddress, amount, expiration): the
\* transaction to send, or the error ethers throws while it resolves the
\* address arguments and encodes the uint160 and the uint48.
P2BuildPermit2Approve(op) ==
    LET failed(text) == [status |-> "error", error |-> text, request |-> <<>>]
    IN  IF IsHexShaped(op.tokenAddress) /\ ~IsEncodableAddress(op.tokenAddress)
        THEN failed("bad address checksum")
        ELSE IF IsHexShaped(op.spenderAddress) /\ ~IsEncodableAddress(op.spenderAddress)
        THEN failed("bad address checksum")
        ELSE IF Uint160Error(op.amount) # NoError
        THEN failed(Uint160Error(op.amount))
        ELSE IF Uint48Error(op.expiration) # NoError
        THEN failed(Uint48Error(op.expiration))
        ELSE [status |-> "ok", error |-> "",
              request |-> P2Request("send", "permit2", op.runner, PERMIT2_ADDRESS,
                                    "approve",
                                    <<op.tokenAddress, op.spenderAddress,
                                      op.amount, op.expiration>>)]

\* What the network answers to approveTx.wait(): the receipt, or the error
\* of a reverted or a replaced transaction.
WaitAnswers == {[ok |-> TRUE, value |-> "receipt", message |-> ""],
                [ok |-> FALSE, value |-> "", message |-> "transaction execution reverted"],
                [ok |-> FALSE, value |-> "", message |-> "transaction was replaced"]}

(***************************************************************************)
(* The state machine.                                                      *)
(***************************************************************************)
SeqsUpTo(S, n) == UNION {[1..k -> S] : k \in 0..n}

PmCall(op, rpcUrl, chainArg, privateKey, status, error, chain, provider, signer) ==
    [op |-> op, rpcUrl |-> rpcUrl, chainArg |-> chainArg, privateKey |-> privateKey,
     status |-> status, error |-> error, chain |-> chain,
     provider |-> provider, signer |-> signer]

\* The state after new ProviderManager(defaultRpcUrl, privateKey?, defaultChainId?)
\* returned; no multicall operation has started.
InitWith(urls) ==
    /\ \E url \in urls, key \in KeyArgs, cid \in ChainArgs :
          LET r == Construct(url, key, cid)
          IN  /\ r.status = "ok"
              /\ providers = r.providers
              /\ signers = r.signers
              /\ defaultChainId = r.defaultChainId
              /\ pmOut = PmCall("constructor", url, cid, key, "ok", NoError,
                                r.defaultChainId, url, r.signers[r.defaultChainId])
              /\ regConn = {r.defaultChainId}
              /\ regKey = {c \in DOMAIN r.signers : r.signers[c] # NoSigner}
    /\ mcPc = "idle"
    /\ mcOp = NoOp
    /\ mcRpc = <<>>
    /\ mcResp = NoResponse
    /\ mcOut = NoOutcome
    /\ multicallAddresses = MULTICALL2_ADDRESSES
    /\ ercPc = "idle"
    /\ ercOp = NoErcOp
    /\ ercRpc = <<>>
    /\ ercResp = <<>>
    /\ ercOut = NoOutcome

Init == InitWith(Urls)

\* providerManager.getProvider(chainId?)
GetProvider(chainArg) ==
    LET r == getProvider(providers, defaultChainId, chainArg)
    IN  /\ pmOut' = PmCall("getProvider", NoProvider, chainArg, NoKey,
                           r.status, r.error, r.chain, r.value, NoSigner)
        /\ UNCHANGED <<providers, signers, defaultChainId, regConn, regKey>>
        /\ UNCHANGED <<mcVars, ercVars>>

\* providerManager.getSigner(chainId?)
GetSigner(chainArg) ==
    LET r == getSigner(signers, defaultChainId, chainArg)
    IN  /\ pmOut' = PmCall("getSigner", NoProvider, chainArg, NoKey,
                           r.status, r.error, r.chain, NoProvider, r.value)
        /\ UNCHANGED <<providers, signers, defaultChainId, regConn, regKey>>
        /\ UNCHANGED <<mcVars, ercVars>>

\* providerManager.addProvider(rpcUrl, chainId, privateKey?)
AddProvider(rpcUrl, chainId, privateKey) ==
    LET r == addProvider(providers, signers, rpcUrl, chainId, privateKey)
    IN  /\ providers' = r.providers
        /\ signers' = r.signers
        /\ pmOut' = PmCall("addProvider", rpcUrl, chainId, privateKey,
                           r.status, r.error, chainId, r.providers[chainId],
                           r.signers[chainId])
        /\ regConn' = IF isValidRpcUrl(rpcUrl) THEN regConn \cup {chainId} ELSE regConn
        /\ regKey' = IF r.status = "ok" /\ privateKey # NoKey
                     THEN regKey \cup {chainId} ELSE regKey
        /\ UNCHANGED defaultChainId
        /\ UNCHANGED <<mcVars, ercVars>>

\* A request that always asks tryAggregate for best effort.
BatchRequestBestEffort(op) ==
    [provider |-> op.provider, to |-> op.address, method |-> MethodOf(op.kind),
     requireSuccess |-> FALSE, calls |-> ResolvedCalls(op.calls)]

\* The eth_call that carries the batch to Multicall2.
BatchRequest(op) ==
    [provider |-> op.provider, to |-> op.address, method |-> MethodOf(op.kind),
     requireSuccess |-> op.requireSuccess, calls |-> ResolvedCalls(op.calls)]

\* The lookup of one name through the connection.
LookupRequest(provider, name) ==
    [provider |-> provider, to |-> "ENS", method |-> "resolveName",
     requireSuccess |-> FALSE, calls |-> <<[target |-> name, callData |-> <<>>]>>]

\* A start that, for a chain the table does not know, writes the mainnet
\* address into the table under that chain.
StartRegisteringChain(kind, ownerAddress, tokenAddresses, calls, chainArg, requireSuccess) ==
    LET r == Prepare(multicallAddresses, providers, defaultChainId, kind, ownerAddress,
                     calls, chainArg)
        op == [kind |-> kind, ownerAddress |-> ownerAddress,
               tokenAddresses |-> tokenAddresses, calls |-> calls,
               chainArg |-> chainArg, chainId |-> r.chainId,
               requireSuccess |-> requireSuccess,
               provider |-> r.provider, address |-> r.address]
        lookups == [i \in 1..Len(r.lookups) |-> LookupRequest(r.provider, r.lookups[i])]
    IN  /\ mcPc = "idle"
        /\ mcOp' = op
        /\ mcResp' = NoResponse
        /\ IF r.status = "send"
           THEN /\ mcPc' = "awaiting"
                /\ mcRpc' = << BatchRequest(op) >>
                /\ mcOut' = NoOutcome
           ELSE IF r.status = "resolve"
           THEN /\ mcPc' = "resolving"
                /\ mcRpc' = lookups
                /\ mcOut' = NoOutcome
           ELSE /\ mcPc' = "done"
                /\ mcRpc' = lookups
                /\ mcOut' = Thrown(r.text, r.cause)
        /\ multicallAddresses' =
              IF r.chainId \in DOMAIN multicallAddresses THEN multicallAddresses
              ELSE (r.chainId :> multicallAddresses[1]) @@ multicallAddresses
        /\ UNCHANGED <<pmVars, ercVars>>

\* A multicall operation is called and runs to its await, or throws before it.
Start(kind, ownerAddress, tokenAddresses, calls, chainArg, requireSuccess) ==
    LET r == Prepare(multicallAddresses, providers, defaultChainId, kind, ownerAddress,
                     calls, chainArg)
        op == [kind |-> kind, ownerAddress |-> ownerAddress,
               tokenAddresses |-> tokenAddresses, calls |-> calls,
               chainArg |-> chainArg, chainId |-> r.chainId,
               requireSuccess |-> requireSuccess,
               provider |-> r.provider, address |-> r.address]
        lookups == [i \in 1..Len(r.lookups) |-> LookupRequest(r.provider, r.lookups[i])]
    IN  /\ mcPc = "idle"
        /\ mcOp' = op
        /\ mcResp' = NoResponse
        /\ IF r.status = "send"
           THEN /\ mcPc' = "awaiting"
                /\ mcRpc' = << BatchRequest(op) >>
                /\ mcOut' = NoOutcome
           ELSE IF r.status = "resolve"
           THEN /\ mcPc' = "resolving"
                /\ mcRpc' = lookups
                /\ mcOut' = NoOutcome
           ELSE /\ mcPc' = "done"
                /\ mcRpc' = lookups
                /\ mcOut' = Thrown(r.text, r.cause)
        /\ UNCHANGED <<pmVars, ercVars, multicallAddresses>>

\* A settling of the lookups that sends the batch through whatever
\* connection the manager holds for the chain at that moment.
ResolveNamesRebinding(resolved) ==
    /\ mcPc = "resolving"
    /\ IF resolved
       THEN /\ mcPc' = "awaiting"
            /\ mcRpc' = Append(mcRpc,
                   [provider |-> providers[mcOp.chainId], to |-> mcOp.address,
                    method |-> MethodOf(mcOp.kind),
                    requireSuccess |-> mcOp.requireSuccess,
                    calls |-> ResolvedCalls(mcOp.calls)])
            /\ mcOut' = NoOutcome
       ELSE /\ mcPc' = "done"
            /\ mcRpc' = mcRpc
            /\ mcOut' = Thrown(CatchPrefix(mcOp.kind), "unconfigured name")
    /\ UNCHANGED <<mcOp, mcResp>>
    /\ UNCHANGED <<pmVars, ercVars, multicallAddresses>>

\* The lookups of the names settle: every name has an address and the
\* request goes out, or a name has none and the call throws into the catch.
ResolveNames(resolved) ==
    /\ mcPc = "resolving"
    /\ IF resolved
       THEN /\ mcPc' = "awaiting"
            /\ mcRpc' = Append(mcRpc, BatchRequest(mcOp))
            /\ mcOut' = NoOutcome
       ELSE /\ mcPc' = "done"
            /\ mcRpc' = mcRpc
            /\ mcOut' = Thrown(CatchPrefix(mcOp.kind), "unconfigured name")
    /\ UNCHANGED <<mcOp, mcResp>>
    /\ UNCHANGED <<pmVars, ercVars, multicallAddresses>>

\* multicall.getErc20BatchBalances({ownerAddress, tokenAddresses}, chainId?)
StartGetErc20BatchBalances(ownerAddress, tokenAddresses, chainArg) ==
    Start("getErc20BatchBalances", ownerAddress, tokenAddresses,
          BalanceCalls(ownerAddress, tokenAddresses), chainArg, FALSE)

\* multicall.batchCalls(calls, chainId?, requireSuccess?)
StartBatchCalls(targets, chainArg, requireSuccess) ==
    Start("batchCalls", OwnerLower, <<>>,
          [i \in 1..Len(targets) |-> [target |-> targets[i], callData |-> <<"decimals">>]],
          chainArg, requireSuccess)

\* A settling that sends the request a second time when the first attempt
\* failed.
SettleRetrying(resp) ==
    /\ mcPc = "awaiting"
    /\ mcResp' = resp
    /\ IF resp.kind # "data" /\ Len(mcRpc) < 2
       THEN /\ mcPc' = "awaiting"
            /\ mcRpc' = Append(mcRpc, mcRpc[Len(mcRpc)])
            /\ mcOut' = NoOutcome
       ELSE /\ mcPc' = "done"
            /\ mcRpc' = mcRpc
            /\ mcOut' = Complete(mcOp, resp)
    /\ UNCHANGED mcOp
    /\ UNCHANGED <<pmVars, ercVars, multicallAddresses>>

\* The awaited call settles with `resp` and the operation runs to its end.
Settle(resp) ==
    /\ mcPc = "awaiting"
    /\ mcPc' = "done"
    /\ mcResp' = resp
    /\ mcOut' = Complete(mcOp, resp)
    /\ UNCHANGED <<mcOp, mcRpc>>
    /\ UNCHANGED <<pmVars, ercVars, multicallAddresses>>

\* Multicall2 at the address runs the batch; each sub-call does what it does.
RespondContract(subs) ==
    /\ Len(subs) = Len(mcOp.calls)
    /\ Settle(IF mcOp.kind = "getErc20BatchBalances"
              THEN Multicall2Aggregate(subs)
              ELSE Multicall2TryAggregate(mcRpc[Len(mcRpc)].requireSuccess, subs))

\* The round-trip fails.
RespondTransportFailure == Settle(TransportFailure)

\* The endpoint answers with a number of entries that is not the batch's.
RespondStray(entries) ==
    /\ Len(entries) # Len(mcOp.calls)
    /\ Settle(StrayResponse(MethodOf(mcOp.kind), entries))

\* The caller has the outcome; the service is ready for the next operation.
Return ==
    /\ mcPc = "done"
    /\ mcPc' = "idle"
    /\ mcOp' = NoOp
    /\ mcRpc' = <<>>
    /\ mcResp' = NoResponse
    /\ mcOut' = NoOutcome
    /\ UNCHANGED <<pmVars, ercVars, multicallAddresses>>

\* An Erc20Service operation is called and runs to its first await, or
\* throws before it.
ErcStart(kind, tokenAddress, partyAddress, spenderAddress, amount, gasPrice, gasLimit, chainArg) ==
    LET args == [kind |-> kind, tokenAddress |-> tokenAddress,
                 partyAddress |-> partyAddress, spenderAddress |-> spenderAddress,
                 amount |-> amount, gasPrice |-> gasPrice, gasLimit |-> gasLimit,
                 chainArg |-> chainArg, runner |-> <<>>]
        invalid == ErcValidate(args)
        runner == IF IsWrite(kind)
                  THEN getSigner(signers, defaultChainId, chainArg)
                  ELSE getProvider(providers, defaultChainId, chainArg)
        op == [args EXCEPT !.runner = runner.value]
    IN  /\ ercPc = "idle"
        /\ ercResp' = <<>>
        /\ IF invalid # NoOutcome
           THEN /\ ercPc' = "done"
                /\ ercOp' = args
                /\ ercRpc' = <<>>
                /\ ercOut' = invalid
           ELSE IF runner.status = "error"
           THEN /\ ercPc' = "done"
                /\ ercOp' = args
                /\ ercRpc' = <<>>
                /\ ercOut' = Thrown(runner.error, "")
           ELSE /\ ercPc' = IF IsWrite(kind) THEN "decimals" ELSE "reading"
                /\ ercOp' = op
                /\ ercRpc' = ErcFirstCalls(op)
                /\ ercOut' = NoOutcome
        /\ UNCHANGED <<pmVars, mcVars>>

\* erc20.getBalance({tokenAddress, ownerAddress}, chainId?)
StartGetBalance(tokenAddress, ownerAddress, chainArg) ==
    ErcStart("getBalance", tokenAddress, ownerAddress, ZeroAddress, <<>>,
             NoGas, NoGas, chainArg)

\* erc20.getAllowance({tokenAddress, ownerAddress, spenderAddress}, chainId?)
StartGetAllowance(tokenAddress, ownerAddress, spenderAddress, chainArg) ==
    ErcStart("getAllowance", tokenAddress, ownerAddress, spenderAddress, <<>>,
             NoGas, NoGas, chainArg)

\* erc20.getTokenMetadata(tokenAddress, chainId?)
StartGetTokenMetadata(tokenAddress, chainArg) ==
    ErcStart("getTokenMetadata", tokenAddress, ZeroAddress, ZeroAddress, <<>>,
             NoGas, NoGas, chainArg)

\* erc20.transfer({tokenAddress, recipientAddress, amount, gasPrice, gasLimit}, chainId?)
StartTransfer(tokenAddress, recipientAddress, amount, gasPrice, gasLimit, chainArg) ==
    ErcStart("transfer", tokenAddress, recipientAddress, ZeroAddress, amount,
             gasPrice, gasLimit, chainArg)

\* erc20.approve({tokenAddress, spenderAddress, amount, gasPrice, gasLimit}, chainId?)
StartApprove(tokenAddress, spenderAddress, amount, gasPrice, gasLimit, chainArg) ==
    ErcStart("approve", tokenAddress, spenderAddress, ZeroAddress, amount,
             gasPrice, gasLimit, chainArg)

\* The awaited read (the three reads of getTokenMetadata) settles.
ErcReadSettle(answer) ==
    /\ ercPc = "reading"
    /\ ercPc' = "done"
    /\ ercResp' = Append(ercResp, answer)
    /\ ercOut' = IF answer.ok THEN Returned(answer.value)
                 ELSE Thrown(ErcCatchPrefix(ercOp.kind), answer.message)
    /\ UNCHANGED <<ercOp, ercRpc>>
    /\ UNCHANGED <<pmVars, mcVars>>

\* The decimals() read of transfer or approve settles; with the answer the
\* amount is converted and the transaction is submitted.
ErcDecimalsSettle(answer) ==
    LET tx == ErcBuildTransaction(ercOp, answer.value)
    IN  /\ ercPc = "decimals"
        /\ ercResp' = Append(ercResp, answer)
        /\ IF ~answer.ok
           THEN /\ ercPc' = "done"
                /\ ercRpc' = ercRpc
                /\ ercOut' = Thrown(ErcCatchPrefix(ercOp.kind), answer.message)
           ELSE IF tx.status = "error"
           THEN /\ ercPc' = "done"
                /\ ercRpc' = ercRpc
                /\ ercOut' = Thrown(ErcCatchPrefix(ercOp.kind), tx.error)
           ELSE /\ ercPc' = "submitting"
                /\ ercRpc' = Append(ercRpc, tx.request)
                /\ ercOut' = NoOutcome
        /\ UNCHANGED ercOp
        /\ UNCHANGED <<pmVars, mcVars>>

\* The submission settles: the transaction hash, or the failure.
ErcTxSettle(answer) ==
    /\ ercPc = "submitting"
    /\ ercPc' = "done"
    /\ ercResp' = Append(ercResp, answer)
    /\ ercOut' = IF answer.ok THEN Returned(answer.value)
                 ELSE Thrown(ErcCatchPrefix(ercOp.kind), answer.message)
    /\ UNCHANGED <<ercOp, ercRpc>>
    /\ UNCHANGED <<pmVars, mcVars>>

\* permit2.approveWithPermit2(tokenAddress, spenderAddress, amount,
\* expiration?, chainId?) is called and runs to its first await, or throws
\* before it.  getSigner is outside the try block; the token contract's
\* approve rejects without a request when its target is a malformed address.
StartApproveWithPermit2(tokenAddress, spenderAddress, amount, expiration, chainArg) ==
    LET signer == getSigner(signers, defaultChainId, chainArg)
        op == [kind |-> "approveWithPermit2", tokenAddress |-> tokenAddress,
               spenderAddress |-> spenderAddress, amount |-> amount,
               expiration |-> IF expiration = NoExpiration THEN MaxUint48
                              ELSE expiration,
               chainArg |-> chainArg, runner |-> signer.value]
    IN  /\ ercPc = "idle"
        /\ ercOp' = op
        /\ ercResp' = <<>>
        /\ IF signer.status = "error"
           THEN /\ ercPc' = "done"
                /\ ercRpc' = <<>>
                /\ ercOut' = Thrown(signer.error, "")
           ELSE IF IsHexShaped(tokenAddress) /\ ~IsEncodableAddress(tokenAddress)
           THEN /\ ercPc' = "done"
                /\ ercRpc' = <<>>
                /\ ercOut' = Thrown(P2CatchPrefix, "bad address checksum")
           ELSE /\ ercPc' = "approving"
                /\ ercRpc' = << P2ApproveRequest(op) >>
                /\ ercOut' = NoOutcome
        /\ UNCHANGED <<pmVars, mcVars>>

\* The submission of the token's approve settles; with the transaction in
\* hand its confirmation is awaited.
P2ApproveSettle(answer) ==
    /\ ercPc = "approving"
    /\ ercResp' = Append(ercResp, answer)
    /\ IF answer.ok
       THEN /\ ercPc' = "confirming"
            /\ ercRpc' = Append(ercRpc, P2WaitRequest(ercOp, answer.value))
            /\ ercOut' = NoOutcome
       ELSE /\ ercPc' = "done"
            /\ ercRpc' = ercRpc
            /\ ercOut' = Thrown(P2CatchPrefix, answer.message)
    /\ UNCHANGED ercOp
    /\ UNCHANGED <<pmVars, mcVars>>

\* A confirmation step that goes on to Permit2 whatever the wait answered.
P2ConfirmSettleIgnoringFailure(answer) ==
    LET tx == P2BuildPermit2Approve(ercOp)
    IN  /\ ercPc = "confirming"
        /\ ercResp' = Append(ercResp, answer)
        /\ IF tx.status = "error"
           THEN /\ ercPc' = "done"
                /\ ercRpc' = ercRpc
                /\ ercOut' = Thrown(P2CatchPrefix, tx.error)
           ELSE /\ ercPc' = "permitting"
                /\ ercRpc' = Append(ercRpc, tx.request)
                /\ ercOut' = NoOutcome
        /\ UNCHANGED ercOp
        /\ UNCHANGED <<pmVars, mcVars>>

\* approveTx.wait() settles; when it resolved, the Permit2 approve is built
\* and submitted.
P2ConfirmSettle(answer) ==
    LET tx == P2BuildPermit2Approve(ercOp)
    IN  /\ ercPc = "confirming"
        /\ ercResp' = Append(ercResp, answer)
        /\ IF ~answer.ok
           THEN /\ ercPc' = "done"
                /\ ercRpc' = ercRpc
                /\ ercOut' = Thrown(P2CatchPrefix, answer.message)
           ELSE IF tx.status = "error"
           THEN /\ ercPc' = "done"
                /\ ercRpc' = ercRpc
                /\ ercOut' = Thrown(P2CatchPrefix, tx.error)
           ELSE /\ ercPc' = "permitting"
                /\ ercRpc' = Append(ercRpc, tx.request)
                /\ ercOut' = NoOutcome
        /\ UNCHANGED ercOp
        /\ UNCHANGED <<pmVars, mcVars>>

\* The submission of the Permit2 approve settles: the transaction hash, or
\* the failure.
P2PermitSettle(answer) ==
    /\ ercPc = "permitting"
    /\ ercPc' = "done"
    /\ ercResp' = Append(ercResp, answer)
    /\ ercOut' = IF answer.ok THEN Returned(answer.value)
                 ELSE Thrown(P2CatchPrefix, answer.message)
    /\ UNCHANGED <<ercOp, ercRpc>>
    /\ UNCHANGED <<pmVars, mcVars>>

\* The caller has the outcome; the service is ready for the next operation.
ErcReturn ==
    /\ ercPc = "done"
    /\ ercPc' = "idle"
    /\ ercOp' = NoErcOp
    /\ ercRpc' = <<>>
    /\ ercResp' = <<>>
    /\ ercOut' = NoOutcome
    /\ UNCHANGED <<pmVars, mcVars>>

NextPM ==
    \/ \E c \in ChainArgs : GetProvider(c)
    \/ \E c \in ChainArgs : GetSigner(c)
    \/ \E u \in Urls, c \in ChainIds, k \in KeyArgs : AddProvider(u, c, k)

NextMC ==
    \/ \E o \in OwnerStrings, t \in SeqsUpTo(TokenStrings, MaxCalls), c \in ChainArgs :
          StartGetErc20BatchBalances(o, t, c)
    \/ \E t \in SeqsUpTo(BatchTargets, MaxCalls), c \in ChainArgs, rs \in BOOLEAN :
          StartBatchCalls(t, c, rs)
    \/ \E resolved \in BOOLEAN : ResolveNames(resolved)
    \/ \E subs \in SeqsUpTo(SubOutcomes, MaxCalls) : RespondContract(subs)
    \/ RespondTransportFailure
    \/ \E e \in SeqsUpTo(StrayEntries, MaxCalls + 1) : RespondStray(e)
    \/ Return

\* The reads of a configured manager.
NextCfg ==
    \/ \E c \in ChainArgs : GetProvider(c)
    \/ \E c \in ChainArgs : GetSigner(c)

NextErc ==
    \/ \E t \in ErcTokens, o \in ErcParties, c \in ChainArgs : StartGetBalance(t, o, c)
    \/ \E t \in ErcTokens, o \in ErcParties, sp \in ErcParties, c \in ChainArgs :
          StartGetAllowance(t, o, sp, c)
    \/ \E t \in ErcTokens, c \in ChainArgs : StartGetTokenMetadata(t, c)
    \/ \E t \in ErcTokens, r \in ErcParties, a \in Amounts, gp \in GasPrices,
          gl \in GasLimits, c \in ChainArgs : StartTransfer(t, r, a, gp, gl, c)
    \/ \E t \in ErcTokens, sp \in ErcParties, a \in Amounts, gp \in GasPrices,
          gl \in GasLimits, c \in ChainArgs : StartApprove(t, sp, a, gp, gl, c)
    \/ \E answer \in ReadAnswers : ErcReadSettle(answer)
    \/ \E answer \in DecimalsAnswers : ErcDecimalsSettle(answer)
    \/ \E answer \in TxAnswers : ErcTxSettle(answer)
    \/ ErcReturn

NextP2 ==
    \/ \E t \in ErcTokens, sp \in P2Spenders, a \in Amounts, e \in ExpirationArgs,
          c \in ChainArgs : StartApproveWithPermit2(t, sp, a, e, c)
    \/ \E answer \in TxAnswers : P2ApproveSettle(answer)
    \/ \E answer \in WaitAnswers : P2ConfirmSettle(answer)
    \/ \E answer \in TxAnswers : P2PermitSettle(answer)
    \/ ErcReturn

\* The operations of the library interleaved: registrations and lookups on
\* the manager while a multicall operation and a token read are in flight.
NextLib ==
    \/ \E u \in {UrlPolygon, UrlNoScheme}, c \in {1, 5}, k \in {NoKey, KeyBad} :
          AddProvider(u, c, k)
    \/ \E c \in {Undefined, 5} : GetProvider(c)
    \/ GetSigner(Undefined)
    \/ \E t \in SeqsUpTo({DaiLower}, MaxLibCalls), c \in {Undefined, 5} :
          StartGetErc20BatchBalances(OwnerLower, t, c)
    \/ \E t \in SeqsUpTo({DaiLower, EnsName}, MaxLibCalls), c \in {1, 5} :
          StartBatchCalls(t, c, FALSE)
    \/ \E resolved \in BOOLEAN : ResolveNames(resolved)
    \/ \E subs \in SeqsUpTo({SubCall(TRUE, Word1000), SubCall(FALSE, EmptyBytes)},
                             MaxLibCalls) : RespondContract(subs)
    \/ RespondTransportFailure
    \/ Return
    \/ StartGetBalance(DaiLower, OwnerLower, Undefined)
    \/ \E answer \in ReadAnswers : ErcReadSettle(answer)
    \/ ErcReturn

Next == NextPM \/ NextMC \/ NextErc

\* The whole library.
Spec == Init /\ [][Next]_vars

\* The ProviderManager alone: no multicall operation runs.
SpecPM == Init /\ [][NextPM]_vars

\* The MulticallService over a manager left as constructed from one URL and
\* no key, with every chain id as the default chain (the service reads only
\* the connection map and never the signers).
InitMC ==
    /\ Init
    /\ pmOut.rpcUrl = UrlCustom
    /\ pmOut.privateKey = NoKey
    /\ pmOut.chainArg \in ChainIds
SpecMC == InitMC /\ [][NextMC]_vars

\* The Erc20Service over a manager constructed from one URL with chain 1 as
\* the default chain, with and without a key.
InitErc ==
    /\ Init
    /\ pmOut.rpcUrl = UrlCustom
    /\ pmOut.chainArg = 1
SpecErc == InitErc /\ [][NextErc]_vars

\* The Permit2Service over the same managers.
SpecP2 == InitErc /\ [][NextP2]_vars

\* The library over a manager constructed from one URL, without a key, with
\* chain 1 as the default chain.
InitLib ==
    /\ Init
    /\ pmOut.rpcUrl = UrlCustom
    /\ pmOut.privateKey = NoKey
    /\ pmOut.chainArg = 1
SpecLib == InitLib /\ [][NextLib]_vars

\* The manager as the configuration leaves it, over more RPC URLs, and the
\* reads that follow.
InitCfg == InitWith(ConfigUrls)
SpecCfg == InitCfg /\ [][NextCfg]_vars

(***************************************************************************)
(* Properties.                                                             *)
(***************************************************************************)
IsBalancesDone == mcPc = "done" /\ mcOp.kind = "getErc20BatchBalances"
IsBatchDone == mcPc = "done" /\ mcOp.kind = "batchCalls"

\* Two strings spell the same 20-byte address.
SameAddress(s, t) == ToLowerCase(s) = ToLowerCase(t)

PairwiseDistinct(seq) ==
    \A i, j \in 1..Len(seq) : i # j => seq[i] # seq[j]

\* The decimal strings of the sample balances, written out.
KnownDecimal(word) ==
    CASE word = Word1000 -> <<1, 0, 0, 0>>
      [] word = Word100 -> <<1, 0, 0>>
      [] word = WordMax ->
        <<1, 1, 5, 7, 9, 2, 0, 8, 9, 2, 3, 7, 3, 1, 6, 1, 9, 5, 4, 2, 3, 5,
        7, 0, 9, 8, 5, 0, 0, 8, 6, 8, 7, 9, 0, 7, 8, 5, 3, 2, 6, 9, 9, 8, 4,
        6, 6, 5, 6, 4, 0, 5, 6, 4, 0, 3, 9, 4, 5, 7, 5, 8, 4, 0, 0, 7, 9, 1,
        3, 1, 2, 9, 6, 3, 9, 9, 3, 5>>
      [] OTHER -> <<>>

\* C1: getErc20BatchBalances over N pairwise-distinct token address strings,
\* answered with N decodable byte strings, returns a mapping of exactly N
\* entries in which tokenAddresses[i] maps to the base-10 string of the
\* uint256 in returnData[i], unscaled, whatever the values are.
C1_StrictAggregationMapping ==
    ( /\ IsBalancesDone
      /\ mcResp.kind = "data"
      /\ Len(mcResp.data) = Len(mcOp.tokenAddresses)
      /\ PairwiseDistinct(mcOp.tokenAddresses)
      /\ \A i \in 1..Len(mcResp.data) : CanDecodeUint256(mcResp.data[i]) )
    => /\ mcOut.status = "ok"
       /\ DOMAIN mcOut.value = {mcOp.tokenAddresses[i] : i \in 1..Len(mcOp.tokenAddresses)}
       /\ Cardinality(DOMAIN mcOut.value) = Len(mcOp.tokenAddresses)
       /\ \A i \in 1..Len(mcOp.tokenAddresses) :
             mcOut.value[mcOp.tokenAddresses[i]] = KnownDecimal(mcResp.data[i])

C1_Witness ==
    /\ IsBalancesDone
    /\ mcOut.status = "ok"
    /\ mcOp.tokenAddresses = <<DaiLower, UsdcLower>>
    /\ mcResp.data = <<WordMax, Word1000>>
    /\ mcOut.value[UsdcLower] = <<1, 0, 0, 0>>

\* C2: whenever the number of return entries differs from the number of token
\* addresses requested (shorter or longer), getErc20BatchBalances fails; it
\* never returns a mapping built from such a response.
C2_LengthMismatchFails ==
    ( /\ IsBalancesDone
      /\ mcResp.kind = "data"
      /\ Len(mcResp.data) # Len(mcOp.tokenAddresses) )
    => mcOut.status = "error"

\* C3: if one of the balanceOf sub-calls reverts inside the batching contract,
\* or the round-trip fails, getErc20BatchBalances fails as a whole with one
\* error wrapping the cause's message, and returns no mapping.
C3_StrictAllOrNothing ==
    ( /\ IsBalancesDone
      /\ mcRpc # <<>>
      /\ \/ mcResp.kind = "transport"
         \/ /\ mcResp.conforming
            /\ \E i \in 1..Len(mcResp.subs) : ~mcResp.subs[i].success )
    => /\ mcOut.status = "error"
       /\ mcOut.text = "Failed to get batch balances: "
       /\ mcOut.cause = mcResp.message
       /\ mcOut.cause # ""
       /\ mcOut.value = <<>>

C3_Witness ==
    /\ IsBalancesDone
    /\ mcResp.conforming
    /\ Len(mcResp.subs) = 2
    /\ mcResp.subs[1].success
    /\ ~mcResp.subs[2].success
    /\ mcOut.status = "error"

\* C4: batchCalls with requireSuccess=false on a batch in which some sub-calls
\* revert does not raise: it returns one {success, returnData} entry per call
\* in request order, success=false exactly for the reverting calls.
C4_BestEffortIndependence ==
    ( /\ IsBatchDone
      /\ mcRpc # <<>>
      /\ ~mcOp.requireSuccess
      /\ mcResp.conforming )
    => /\ mcOut.status = "ok"
       /\ Len(mcOut.value) = Len(mcOp.calls)
       /\ \A i \in 1..Len(mcOp.calls) :
             /\ mcOut.value[i].success = mcResp.subs[i].success
             /\ mcOut.value[i].returnData = mcResp.subs[i].returnData

C4_Witness ==
    /\ IsBatchDone
    /\ ~mcOp.requireSuccess
    /\ mcResp.conforming
    /\ Len(mcOp.calls) = 2
    /\ mcResp.subs[1].success
    /\ ~mcResp.subs[2].success
    /\ mcOut.status = "ok"
    /\ ~mcOut.value[2].success

\* C5: a multicall operation on a chain id that is absent from the Multicall2
\* address table fails with the unwrapped 'Multicall2 address not found' error
\* and issues no RPC call, whether or not a provider is registered for it.
C5_UnsupportedChainError ==
    ( /\ mcPc = "done"
      /\ DefaultParamChain(mcOp.chainArg) \notin DOMAIN MULTICALL2_ADDRESSES )
    => /\ mcOut = Thrown("Multicall2 address not found for chain ID", "")
       /\ mcRpc = <<>>

\* C6: when the same token address is given twice with different letter casing
\* the batch has a call descriptor per occurrence and the returned mapping has
\* exactly one entry for that address.
C6_CaseInsensitiveCollision ==
    ( /\ IsBalancesDone
      /\ mcOut.status = "ok" )
    => \A i, j \in 1..Len(mcOp.tokenAddresses) :
          ( /\ mcOp.tokenAddresses[i] # mcOp.tokenAddresses[j]
            /\ SameAddress(mcOp.tokenAddresses[i], mcOp.tokenAddresses[j]) )
          => /\ Len(mcRpc[1].calls) = Len(mcOp.tokenAddresses)
             /\ Cardinality({k \in DOMAIN mcOut.value :
                               SameAddress(k, mcOp.tokenAddresses[i])}) = 1

\* C7: every operation that takes an optional chain id, called without one,
\* runs against the manager's configured default chain: getProvider, getSigner
\* and equally the two multicall operations.
C7_DefaultChainResolution ==
    /\ (pmOut.op \in {"getProvider", "getSigner"} /\ pmOut.chainArg = Undefined)
          => pmOut.chain = defaultChainId
    /\ (mcPc # "idle" /\ mcOp.chainArg = Undefined)
          => mcOp.chainId = defaultChainId

\* C8: in every reachable state and for every chain id c, getProvider(c)
\* returns a connection iff one was stored for c by the constructor or
\* addProvider and otherwise fails with 'Provider not found'; getSigner(c)
\* returns a signer iff a wallet was stored for c and otherwise fails with
\* 'Signer not found', also when a connection for c exists.
C8_ConnectionLookup ==
    \A c \in ChainIds :
        LET p == getProvider(providers, defaultChainId, c)
            g == getSigner(signers, defaultChainId, c)
        IN  /\ p.chain = c /\ g.chain = c
            /\ (p.status = "ok") <=> (c \in regConn)
            /\ p.status = "ok" => p.value = providers[c] /\ p.value # NoProvider
            /\ p.status # "ok" => p.error = "Provider not found for chain ID"
            /\ (g.status = "ok") <=> (c \in regKey)
            /\ g.status = "ok" => g.value = signers[c] /\ g.value # NoSigner
            /\ g.status # "ok" => g.error = "Signer not found for chain ID"

C8_Witness ==
    /\ pmOut.op = "getSigner"
    /\ pmOut.status = "error"
    /\ pmOut.chain \in regConn
    /\ pmOut.chain # defaultChainId
    /\ regKey # {}
    /\ regConn # ChainIds

\* C9: if the RPC URL is not well-formed, or a private key is supplied and is
\* not valid, addProvider throws and the connection map and the signer map are
\* exactly what they were before the call.
C9_AddProviderValidatesBeforeStoring ==
    [][ (pmOut'.op = "addProvider" /\ pmOut'.status = "error")
        => (providers' = providers /\ signers' = signers) ]_vars

\* C10: addProvider(url, c, key?) applied again with the same arguments leaves
\* the chain-to-endpoint and chain-to-key association it left the first time;
\* it replaces the entry of chain c and leaves every other chain's entries
\* unchanged.
C10_AddProviderIdempotentReplace ==
    [][ pmOut'.op = "addProvider" =>
          LET a == pmOut'
              again == addProvider(providers', signers', a.rpcUrl, a.chain, a.privateKey)
          IN  /\ again.providers = providers'
              /\ again.signers = signers'
              /\ again.status = a.status
              /\ \A d \in ChainIds \ {a.chain} :
                    providers'[d] = providers[d] /\ signers'[d] = signers[d]
              /\ a.status = "ok" =>
                    /\ providers'[a.chain] = a.rpcUrl
                    /\ a.privateKey # NoKey =>
                          signers'[a.chain] = Wallet(a.privateKey, a.rpcUrl) ]_vars

C10_Witness ==
    /\ pmOut.op = "addProvider"
    /\ pmOut.status = "ok"
    /\ pmOut.chain = defaultChainId
    /\ pmOut.privateKey # NoKey
    /\ providers[pmOut.chain] = pmOut.rpcUrl
    /\ \E d \in ChainIds \ {pmOut.chain} : providers[d] # NoProvider


\* The calls to the batching contract among the RPC calls of the operation.
BatchRpcs == SelectSeq(mcRpc, LAMBDA r : r.method \in {"aggregate", "tryAggregate"})

\* C12: when a target of the batch is not a syntactically valid 20-byte hex
\* address, the operation issues no RPC call for the batch and ends in an
\* error.
C12_InvalidTargetsRejected ==
    (/\ mcPc # "idle"
     /\ \E i \in 1..Len(mcOp.calls) : ~IsHexShaped(mcOp.calls[i].target))
        => /\ BatchRpcs = <<>>
           /\ mcPc = "done" => mcOut.status = "error"

\* C13: one call of getErc20BatchBalances or batchCalls issues at most one
\* RPC call to the batching contract whatever the number of sub-calls, and
\* once that call has failed the operation has ended in an error with that
\* single call issued.
C13_SingleRoundTrip ==
    /\ Len(BatchRpcs) <= 1
    /\ mcPc = "awaiting" => /\ Len(BatchRpcs) = 1
                            /\ Len(mcRpc[Len(mcRpc)].calls) = Len(mcOp.calls)
    /\ mcResp.kind \in {"transport", "revert"}
          => /\ mcPc = "done"
             /\ mcOut.status = "error"
             /\ Len(BatchRpcs) = 1

C13_Witness ==
    /\ mcPc = "done"
    /\ Len(mcOp.calls) = MaxCalls
    /\ mcResp.kind = "transport"
    /\ mcOut.status = "error"
    /\ Len(BatchRpcs) = 1

\* C15: a successful batchCalls of N descriptors returns exactly N results,
\* and a response whose number of entries is not N makes the operation fail
\* instead of returning a shorter or longer sequence.
C15_BatchCallsLengthOrder ==
    /\ (IsBatchDone /\ mcOut.status = "ok")
          => Len(mcOut.value) = Len(mcOp.calls)
    /\ (IsBatchDone /\ mcResp.kind = "data" /\ Len(mcResp.data) # Len(mcOp.calls))
          => mcOut.status = "error"

\* C16: when an entry of the response cannot be decoded as a uint256, the
\* error of getErc20BatchBalances is of another kind than the error it
\* reports when the round-trip fails.
C16_DecodeErrorDistinct ==
    (IsBalancesDone /\ mcResp.kind = "data" /\ mcOut.status = "error")
        => ErrorKind(mcOut) # ErrorKind(Complete(mcOp, TransportFailure))

\* C17: getErc20BatchBalances with no token address, and batchCalls with no
\* call, end in an error; neither returns an empty result as a success.
C17_EmptyBatchIsCallerError ==
    (mcPc = "done" /\ mcOp.calls = <<>>) => mcOut.status = "error"

\* C18: batchCalls hands its requireSuccess flag unchanged to tryAggregate,
\* and with requireSuccess=true a batch in which a sub-call fails makes the
\* whole operation fail with an error and no result sequence.
C18_RequireSuccessStrict ==
    /\ (mcOp.kind = "batchCalls" /\ BatchRpcs # <<>>)
          => /\ BatchRpcs[1].method = "tryAggregate"
             /\ BatchRpcs[1].requireSuccess = mcOp.requireSuccess
    /\ ( /\ IsBatchDone
         /\ mcOp.requireSuccess
         /\ mcResp.conforming
         /\ \E i \in 1..Len(mcResp.subs) : ~mcResp.subs[i].success )
          => /\ mcOut.status = "error"
             /\ mcOut.text = "Failed to batch calls: "
             /\ mcOut.value = <<>>

C18_Witness ==
    /\ IsBatchDone
    /\ mcOp.requireSuccess
    /\ mcResp.conforming
    /\ BatchRpcs[1].requireSuccess
    /\ Len(mcResp.subs) = 2
    /\ mcResp.subs[1].success
    /\ ~mcResp.subs[2].success
    /\ mcOut.status = "error"

\* C19: when a token address string occurs more than once in tokenAddresses,
\* the request still carries one call descriptor per occurrence, the mapping
\* returned has one entry per distinct string, and the entry of a string holds
\* the balance decoded for its last occurrence.
C19_DuplicateKeysOverwrite ==
    /\ (mcOp.kind = "getErc20BatchBalances" /\ BatchRpcs # <<>>)
          => /\ Len(BatchRpcs[1].calls) = Len(mcOp.tokenAddresses)
             /\ \A i \in 1..Len(mcOp.tokenAddresses) :
                   BatchRpcs[1].calls[i].target = mcOp.tokenAddresses[i]
    /\ (IsBalancesDone /\ mcOut.status = "ok")
          => /\ DOMAIN mcOut.value =
                   {mcOp.tokenAddresses[i] : i \in 1..Len(mcOp.tokenAddresses)}
             /\ \A i \in 1..Len(mcOp.tokenAddresses) :
                   (\A j \in (i + 1)..Len(mcOp.tokenAddresses) :
                       mcOp.tokenAddresses[j] # mcOp.tokenAddresses[i])
                   => mcOut.value[mcOp.tokenAddresses[i]] = KnownDecimal(mcResp.data[i])

C19_Witness ==
    /\ IsBalancesDone
    /\ mcOut.status = "ok"
    /\ mcOp.tokenAddresses = <<DaiLower, DaiLower>>
    /\ Len(BatchRpcs[1].calls) = 2
    /\ mcResp.data = <<Word1000, Word100>>
    /\ DOMAIN mcOut.value = {DaiLower}
    /\ mcOut.value[DaiLower] = <<1, 0, 0>>

\* C14: when the configuration gives no chain id, the default chain is the
\* id of the first chain of the table one of whose RPC URLs contains, or is
\* contained in, the configured URL, and 1 when no chain matches; when a
\* chain id is given it is the default.  The configured connection is the
\* connection of the default chain.
C14_DefaultChainAtConfiguration ==
    pmOut.op = "constructor" =>
        LET url == pmOut.rpcUrl
            n == Len(SUPPORTED_CHAINS)
            Hit(i) == \E j \in 1..Len(SUPPORTED_CHAINS[i].rpcUrls) :
                          \/ Includes(url, SUPPORTED_CHAINS[i].rpcUrls[j])
                          \/ Includes(SUPPORTED_CHAINS[i].rpcUrls[j], url)
        IN  /\ pmOut.chainArg \in ChainIds => defaultChainId = pmOut.chainArg
            /\ pmOut.chainArg = Undefined =>
                  /\ (\E i \in 1..n : Hit(i))
                        => \E i \in 1..n : /\ Hit(i)
                                            /\ \A k \in 1..(i - 1) : ~Hit(k)
                                            /\ defaultChainId = SUPPORTED_CHAINS[i].id
                  /\ (\A i \in 1..n : ~Hit(i)) => defaultChainId = 1
                  /\ url = UrlMainnetPrefix => defaultChainId = 1
                  /\ url = UrlBase => defaultChainId = 8453
                  /\ url = UrlBsc => defaultChainId = 56
                  /\ url = UrlPolygonPath => defaultChainId = 137
                  /\ url = UrlCustom => defaultChainId = 1
            /\ providers[defaultChainId] = url

C14_Witness ==
    /\ pmOut.op = "constructor"
    /\ pmOut.chainArg = Undefined
    /\ pmOut.rpcUrl = UrlMainnetPrefix
    /\ defaultChainId = 1
    /\ providers[1] = UrlMainnetPrefix

\* The address string is not a well-formed address.
IsMalformedAddress(a) == a.casing \notin {"lower", "checksum"}

\* An address of the operation is malformed, or the amount of a transfer or
\* approve is not a non-negative decimal number.
HasInvalidParameter(op) ==
    \/ IsMalformedAddress(op.tokenAddress)
    \/ op.kind # "getTokenMetadata" /\ IsMalformedAddress(op.partyAddress)
    \/ op.kind = "getAllowance" /\ IsMalformedAddress(op.spenderAddress)
    \/ IsWrite(op.kind) /\ ~IsDecimalLiteral(op.amount)

\* The error names a parameter.
IdentifiesParameter(outcome) ==
    LET names == {"Invalid token address", "Invalid recipient address", "Invalid amount"}
    IN  outcome.text \in names \/ outcome.cause \in names

\* C11: an Erc20Service operation called with a malformed address, or with a
\* negative or non-numeric amount, has failed without any network call and
\* with an error that names the invalid parameter.
C11_ValidationBeforeNetwork ==
    (ercPc # "idle" /\ HasInvalidParameter(ercOp))
        => /\ ercPc = "done"
           /\ ercRpc = <<>>
           /\ ercOut.status = "error"
           /\ IdentifiesParameter(ercOut)

\* The number a string of digits writes, and the powers of ten.
RECURSIVE DecimalValue(_)
DecimalValue(digits) ==
    IF digits = <<>> THEN 0
    ELSE LET n == Len(digits)
             last == CHOOSE v \in 0..9 : DigitChars[v + 1] = digits[n]
         IN  10 * DecimalValue(SubSeq(digits, 1, n - 1)) + last

RECURSIVE Pow10(_)
Pow10(n) == IF n = 0 THEN 1 ELSE 10 * Pow10(n - 1)

\* C20: a transaction of transfer or approve is submitted only after the
\* decimals() read issued by this same call has returned, to the token and
\* the party of the call, with the base-unit amount equal to the human amount
\* times ten to the decimals that read returned.
C20_DecimalScalingPerCall ==
    /\ \A i \in 1..Len(ercRpc) : ercRpc[i].type = "send" =>
          LET amount == ercOp.amount
              digits == SelectSeq(amount, LAMBDA c : c # ".")
              dots == PositionsOf(amount, {"."})
              places == IF dots = {} THEN 0
                        ELSE Len(amount) - (CHOOSE k \in dots : TRUE)
          IN  /\ i = 2
              /\ ercRpc[1].type = "call"
              /\ ercRpc[1].method = "decimals"
              /\ ercRpc[1].to = ercOp.tokenAddress
              /\ Len(ercResp) >= 1
              /\ ercResp[1].ok
              /\ ercRpc[i].to = ercOp.tokenAddress
              /\ ercRpc[i].method = ercOp.kind
              /\ ercRpc[i].args[1] = ercOp.partyAddress
              /\ DecimalValue(ercRpc[i].args[2]) * Pow10(places)
                    = DecimalValue(digits) * Pow10(ercResp[1].value)
    /\ (ercPc = "done" /\ IsWrite(ercOp.kind) /\ ercOut.status = "ok")
          => /\ Len(ercRpc) = 2
             /\ ercRpc[2].type = "send"

C20_Witness ==
    /\ ercPc = "done"
    /\ ercOp.kind = "approve"
    /\ ercOut.status = "ok"
    /\ ercOp.amount = AmtOnePointFive
    /\ ercResp[1].value = 2
    /\ ercRpc[2].type = "send"
    /\ ercRpc[2].args[2] = <<"1", "5", "0">>

\* C21: in every reachable state the table of batching-contract addresses
\* holds exactly the chains 1, 137, 56, 8453, 10 and 42161, each with its one
\* fixed address: no operation of the library adds, removes or changes an
\* entry.
C21_RegistryImmutable ==
    /\ DOMAIN multicallAddresses = {1, 137, 56, 8453, 10, 42161}
    /\ multicallAddresses[1] = "0x5BA1e12693Dc8F9c48aAD8770482f4739bEeD696"
    /\ multicallAddresses[137] = "0x275617327c958bD06b5D6b871E7f491D76113dd8"
    /\ multicallAddresses[56] = "0xa9193376D09C7f31283C54e56D013fCF370Cd9D9"
    /\ multicallAddresses[8453] = "0xcA11bde05977b3631167028862bE2a173976CA11"
    /\ multicallAddresses[10] = "0xcA11bde05977b3631167028862bE2a173976CA11"
    /\ multicallAddresses[42161] = "0xcA11bde05977b3631167028862bE2a173976CA11"

C21_Witness ==
    /\ mcPc = "done"
    /\ mcOp.chainId = 5
    /\ providers[5] # NoProvider
    /\ mcOut.text = "Multicall2 address not found for chain ID"
    /\ ercPc = "done"
    /\ 5 \notin DOMAIN multicallAddresses

\* C22: in every reachable state of the manager, every chain that has a
\* signer has a connection, and the signer is bound to the connection that
\* is stored for the chain now.
C22_SignerBoundToConnection ==
    \A c \in DOMAIN signers :
        signers[c] # NoSigner
            => /\ providers[c] # NoProvider
               /\ signers[c].provider = providers[c]

\* C23: once the manager is constructed, whatever addProvider calls follow,
\* succeeding or throwing, the default chain id never changes and a
\* connection is stored for it, so getProvider() without a chain id returns
\* a connection and does not throw.
C23_DefaultConnectionPresent ==
    /\ [](/\ defaultChainId \in DOMAIN providers
          /\ providers[defaultChainId] # NoProvider
          /\ getProvider(providers, defaultChainId, Undefined).status = "ok"
          /\ (pmOut.op = "getProvider" /\ pmOut.chainArg = Undefined)
                => (pmOut.status = "ok" /\ pmOut.provider = providers[defaultChainId]))
    /\ [][defaultChainId' = defaultChainId]_vars

C23_Witness ==
    /\ pmOut.op = "addProvider"
    /\ pmOut.status = "error"
    /\ pmOut.privateKey = KeyBad
    /\ pmOut.chain = defaultChainId
    /\ providers[defaultChainId] = pmOut.rpcUrl

\* The Permit2 approve among the awaited calls of the operation in flight.
IsPermit2Approve(rpc) ==
    /\ rpc.type = "send"
    /\ rpc.abi = "permit2"
    /\ rpc.to = PERMIT2_ADDRESS
    /\ rpc.method = "approve"

\* C24: in approveWithPermit2 the Permit2 approve(token, spender, amount,
\* expiration) is submitted only after the token's approve(PERMIT2_ADDRESS,
\* MaxUint256) was submitted and its wait() resolved; when the token's
\* approve or its confirmation fails, no Permit2 approve is submitted and the
\* operation throws "Failed to approve with Permit2: " and the cause's
\* message.
C24_Permit2AfterConfirmedApprove ==
    ercOp.kind = "approveWithPermit2" =>
        /\ \A i \in 1..Len(ercRpc) : IsPermit2Approve(ercRpc[i]) =>
              /\ i = 3
              /\ ercRpc[i].args = <<ercOp.tokenAddress, ercOp.spenderAddress,
                                    ercOp.amount, ercOp.expiration>>
              /\ ercRpc[1] = P2Request("send", "erc20", ercOp.runner,
                                       ercOp.tokenAddress, "approve",
                                       <<PERMIT2_ADDRESS, MaxUint256>>)
              /\ ercRpc[2].type = "wait"
              /\ Len(ercResp) >= 2
              /\ ercResp[1].ok
              /\ ercResp[2].ok
        /\ \A j \in 1..Len(ercResp) : (j <= 2 /\ ~ercResp[j].ok) =>
              /\ ercPc = "done"
              /\ j = Len(ercResp)
              /\ \A i \in 1..Len(ercRpc) : ~IsPermit2Approve(ercRpc[i])
              /\ ercOut = Thrown(P2CatchPrefix, ercResp[j].message)
        /\ (ercPc = "done" /\ ercRpc = <<>> /\ ercOp.runner # NoSigner) =>
              /\ ercOut.status = "error"
              /\ ercOut.text = P2CatchPrefix

C24_Witness ==
    /\ ercPc = "done"
    /\ ercOp.kind = "approveWithPermit2"
    /\ ercOp.expiration = MaxUint48
    /\ Len(ercRpc) = 3
    /\ IsPermit2Approve(ercRpc[3])
    /\ ercOut.status = "ok"

\* C25: a getErc20BatchBalances or batchCalls operation takes its connection
\* and the batching contract's address once, when it starts, from what the
\* manager and the table hold at that moment (so an operation started after
\* a registration uses the new connection); every request it issues goes
\* through that connection and its batch goes to that address; an addProvider
\* that runs while the operation is suspended changes nothing of the
\* operation; and what the operation returns is decided by the operation as
\* it started and the answer alone.
C25_InFlightIsolation ==
    /\ [](\A i \in 1..Len(mcRpc) :
            /\ mcRpc[i].provider = mcOp.provider
            /\ mcRpc[i].method \in {"aggregate", "tryAggregate"}
                  => mcRpc[i].to = mcOp.address)
    /\ [][(mcPc = "idle" /\ mcPc' # "idle") =>
             /\ mcOp'.provider = getProvider(providers, defaultChainId, mcOp'.chainId).value
             /\ mcOp'.address = getMulticallAddress(multicallAddresses, mcOp'.chainId).value]_vars
    /\ [][(mcPc # "idle" /\ providers' # providers) =>
             UNCHANGED <<mcPc, mcOp, mcRpc, mcResp, mcOut>>]_vars
    /\ [][(mcPc \in {"resolving", "awaiting"}) => mcOp' = mcOp]_vars
    /\ [][(mcPc = "awaiting" /\ mcPc' = "done") =>
             mcOut' = Complete(mcOp, mcResp')]_vars

C25_Witness ==
    /\ mcPc = "awaiting"
    /\ mcOp.chainId = 1
    /\ mcOp.provider = UrlCustom
    /\ providers[1] = UrlPolygon
    /\ pmOut.op = "addProvider"
    /\ pmOut.status = "ok"
    /\ Len(BatchRpcs) = 1
    /\ BatchRpcs[1].provider = UrlCustom

====
